---------------------------- MODULE Spec2Model ----------------------------
(***************************************************************************)
(* Resume extraction and job matching: extract.py (text cleaning, header/  *)
(* footer de-duplication, scanned-PDF heuristic, extraction entry point),  *)
(* jobmatcher.py (set/fuzzy matching and scoring) and app.py (the request  *)
(* handler with its temporary file and its memoized extraction).           *)
(*                                                                         *)
(* Text is a sequence of one-character strings.  A score is kept in        *)
(* hundredths of a percent point (4200 is 42.00).                          *)
(***************************************************************************)
EXTENDS Integers, Sequences, FiniteSets, TLC

VARIABLES
    \* jobmatcher.py
    resume_keywords, jd_keywords, HAVE_FUZZ, ratio, result, before, added, mstep,
    \* extract.py: de_duplicate_headers_footers
    lines, kept, dstep,
    \* extract.py: clean_text
    text, cleaned, recleaned, cstep,
    \* extract.py: extract_resume_text
    file_path, disk, clean, returned, estep,
    \* extract.py: is_scanned_pdf
    pdf_pages, sample_pages, readable, scanned, sstep,
    \* app.py
    pc, fs, cache, request, tmp, tmp_path, extracted, pending, failure

matchVars == <<resume_keywords, jd_keywords, HAVE_FUZZ, ratio, result, before, added, mstep>>
dedupVars == <<lines, kept, dstep>>
cleanVars == <<text, cleaned, recleaned, cstep>>
extractVars == <<file_path, disk, clean, returned, estep>>
scannedVars == <<pdf_pages, sample_pages, readable, scanned, sstep>>
appVars == <<pc, fs, cache, request, tmp, tmp_path, extracted, pending, failure>>
vars == <<matchVars, dedupVars, cleanVars, extractVars, scannedVars, appVars>>

\* What a step of one part leaves alone.
notMatch == <<dedupVars, cleanVars, extractVars, scannedVars, appVars>>
notDedup == <<matchVars, cleanVars, extractVars, scannedVars, appVars>>
notClean == <<matchVars, dedupVars, extractVars, scannedVars, appVars>>
notExtract == <<matchVars, dedupVars, cleanVars, scannedVars, appVars>>
notScanned == <<matchVars, dedupVars, cleanVars, extractVars, appVars>>
notApp == <<matchVars, dedupVars, cleanVars, extractVars, scannedVars>>

Min(a, b) == IF a <= b THEN a ELSE b
Max(a, b) == IF a >= b THEN a ELSE b

(***************************************************************************)
(* extract.py: cleaning                                                    *)
(***************************************************************************)
\* Characters str.strip() and the regex class \s take for whitespace.
Whitespace == {" ", "\t", "\n", "\r"}

\* str.strip()
RECURSIVE lstrip(_)
lstrip(s) == IF s # <<>> /\ Head(s) \in Whitespace THEN lstrip(Tail(s)) ELSE s

RECURSIVE rstrip(_)
rstrip(s) ==
    IF s # <<>> /\ s[Len(s)] \in Whitespace THEN rstrip(SubSeq(s, 1, Len(s) - 1)) ELSE s

strip(s) == rstrip(lstrip(s))

\* text.replace(old, new) for a one-character old.
RECURSIVE replace(_, _, _)
replace(s, old, new) ==
    IF s = <<>> THEN <<>>
    ELSE (IF Head(s) = old THEN new ELSE <<Head(s)>>) \o replace(Tail(s), old, new)

\* The glyphs are written by code point.
BULLETS == <<"U+2022", "U+25E6", "U+00B7", "U+25CF", "U+2013", "U+2014", "U+2022",
            "U+25AA", "U+2023">>

RECURSIVE replace_each(_, _)
replace_each(s, bs) ==
    IF bs = <<>> THEN s
    ELSE replace_each(replace(s, Head(bs), <<"\n", "-", " ">>), Tail(bs))

normalize_bullets(s) == replace_each(s, BULLETS)

\* str.lower() on ASCII.
LowerOf ==
    "A" :> "a" @@ "B" :> "b" @@ "C" :> "c" @@ "D" :> "d" @@ "E" :> "e" @@
    "F" :> "f" @@ "G" :> "g" @@ "H" :> "h" @@ "I" :> "i" @@ "J" :> "j" @@
    "K" :> "k" @@ "L" :> "l" @@ "M" :> "m" @@ "N" :> "n" @@ "O" :> "o" @@
    "P" :> "p" @@ "Q" :> "q" @@ "R" :> "r" @@ "S" :> "s" @@ "T" :> "t" @@
    "U" :> "u" @@ "V" :> "v" @@ "W" :> "w" @@ "X" :> "x" @@ "Y" :> "y" @@
    "Z" :> "z"
lower_char(c) == IF c \in DOMAIN LowerOf THEN LowerOf[c] ELSE c
lower(s) == [i \in 1..Len(s) |-> lower_char(s[i])]

\* _ALLOWED_CHARS = [^a-z0-9@\.\+\-#/_&\s\n]
LowerCase == {LowerOf[c] : c \in DOMAIN LowerOf}
Digits == {"0", "1", "2", "3", "4", "5", "6", "7", "8", "9"}
AllowedChars == LowerCase \cup Digits \cup {"@", ".", "+", "-", "#", "/", "_", "&"}
                    \cup Whitespace

strip_disallowed(s) == [i \in 1..Len(s) |-> IF s[i] \in AllowedChars THEN s[i] ELSE " "]

\* Length of the run of characters of cls that s starts with.
RECURSIVE run_length(_, _)
run_length(s, cls) ==
    IF s # <<>> /\ Head(s) \in cls THEN 1 + run_length(Tail(s), cls) ELSE 0

\* re.sub(r"[cls]{atleast,}", repl, s): every maximal run of at least atleast
\* characters of cls becomes repl.
RECURSIVE collapse_runs(_, _, _, _)
collapse_runs(s, cls, atleast, repl) ==
    IF s = <<>> THEN <<>>
    ELSE LET n == run_length(s, cls)
         IN  IF n = 0 THEN <<Head(s)>> \o collapse_runs(Tail(s), cls, atleast, repl)
             ELSE (IF n >= atleast THEN repl ELSE SubSeq(s, 1, n))
                      \o collapse_runs(SubSeq(s, n + 1, Len(s)), cls, atleast, repl)

\* A faulty order: the runs are collapsed before the disallowed characters
\* become spaces.
clean_text_filter_last(s) ==
    LET t1 == replace(s, "\r", <<"\n">>)
        t2 == normalize_bullets(t1)
        t3 == lower(t2)
        t4 == collapse_runs(t3, {" ", "\t"}, 2, <<" ">>)
        t5 == collapse_runs(t4, {"\n"}, 3, <<"\n", "\n">>)
        t6 == strip_disallowed(t5)
    IN  strip(t6)

\* clean_text(text), step by step.
clean_text(s) ==
    LET t1 == replace(s, "\r", <<"\n">>)
        t2 == normalize_bullets(t1)
        t3 == lower(t2)
        t4 == strip_disallowed(t3)
        t5 == collapse_runs(t4, {" ", "\t"}, 2, <<" ">>)
        t6 == collapse_runs(t5, {"\n"}, 3, <<"\n", "\n">>)
    IN  strip(t6)

\* Longest input text.
MaxLen == 4
\* One character of each kind: lower and upper case, digit, allowed and
\* disallowed punctuation, bullet glyph, space, tab, carriage return, newline.
Alphabet == {"a", "A", "1", "+", "$", "U+2022", " ", "\t", "\r", "\n"}
Texts == UNION {[1..n -> Alphabet] : n \in 0..MaxLen}

CleanIdle == text = <<>> /\ cleaned = <<>> /\ recleaned = <<>> /\ cstep = "idle"

CleanInit ==
    /\ text \in Texts
    /\ cleaned = <<>>
    /\ recleaned = <<>>
    /\ cstep = "input"

\* cleaned = clean_text(text)
Clean ==
    /\ UNCHANGED notClean
    /\ cstep = "input"
    /\ cleaned' = clean_text(text)
    /\ cstep' = "cleaned"
    /\ UNCHANGED <<text, recleaned>>

\* recleaned = clean_text(cleaned)
CleanAgain ==
    /\ UNCHANGED notClean
    /\ cstep = "cleaned"
    /\ recleaned' = clean_text(cleaned)
    /\ cstep' = "recleaned"
    /\ UNCHANGED <<text, cleaned>>

(***************************************************************************)
(* extract.py: header/footer de-duplication                                *)
(***************************************************************************)
\* freq.get(k, 0)
Get(freq, k) == IF k \in DOMAIN freq THEN freq[k] ELSE 0

\* The counting loop: freq[k] = freq.get(k, 0) + 1 for every non-blank
\* stripped line k.
RECURSIVE count_lines(_, _)
count_lines(lns, freq) ==
    IF lns = <<>> THEN freq
    ELSE LET k == strip(Head(lns))
         IN  IF k = <<>> THEN count_lines(Tail(lns), freq)
             ELSE count_lines(Tail(lns),
                      [x \in DOMAIN freq \cup {k} |->
                          IF x = k THEN Get(freq, k) + 1 ELSE freq[x]])

EmptyFreq == [x \in {} |-> 0]

MaxOf(S) == CHOOSE m \in S : \A x \in S : x <= m

\* A faulty threshold: int(0.4 * max(freq.values())) without the floor of 2.
threshold_no_min(freq) == (2 * MaxOf({freq[k] : k \in DOMAIN freq})) \div 5

\* max(2, int(0.4 * max(freq.values()))): 0.4 * m is never below 2m/5 in
\* floating point, so int() gives floor(2m / 5).
threshold(freq) == Max(2, (2 * MaxOf({freq[k] : k \in DOMAIN freq})) \div 5)

\* de_duplicate_headers_footers(lines): unchanged when no line is counted,
\* else the lines whose count is below the threshold (0 for a blank line).
de_duplicate_headers_footers(lns) ==
    LET freq == count_lines(lns, EmptyFreq)
        keep(ln) == Get(freq, strip(ln)) < threshold(freq)
    IN  IF DOMAIN freq = {} THEN lns ELSE SelectSeq(lns, keep)

\* out.splitlines() on text whose only line break is "\n".
RECURSIVE splitlines_from(_, _)
splitlines_from(s, cur) ==
    IF s = <<>> THEN (IF cur = <<>> THEN <<>> ELSE <<cur>>)
    ELSE IF Head(s) = "\n" THEN <<cur>> \o splitlines_from(Tail(s), <<>>)
    ELSE splitlines_from(Tail(s), Append(cur, Head(s)))

splitlines(s) == splitlines_from(s, <<>>)

\* "\n".join(parts)
RECURSIVE join(_)
join(parts) ==
    IF parts = <<>> THEN <<>>
    ELSE IF Len(parts) = 1 THEN Head(parts)
    ELSE Head(parts) \o <<"\n">> \o join(Tail(parts))

\* The lines extract_text_from_pdf hands to the de-duplication: the non-empty
\* page texts joined by newlines and split into lines.
pdf_lines(page_texts) == splitlines(join(SelectSeq(page_texts, LAMBDA t : t # <<>>)))

extract_text_from_pdf(page_texts) == join(de_duplicate_headers_footers(pdf_lines(page_texts)))

\* Longest list of arbitrary lines, and most pages of a paged document.
MaxLines == 4
MaxPages == 10
LineChoices == { <<>>, <<" ">>, <<"h">>, <<" ", "h">>, <<"x">> }
PageChoices == { <<"h">>, <<"h", "\n", "x">>, <<" ", "y", " ">> }
ShortDocs == UNION {[1..n -> LineChoices] : n \in 0..MaxLines}
PagedDocs == UNION {[1..n -> PageChoices] : n \in (MaxPages - 1)..MaxPages}

DedupIdle == lines = <<>> /\ kept = <<>> /\ dstep = "idle"

DedupInit ==
    /\ lines \in ShortDocs \cup {pdf_lines(d) : d \in PagedDocs}
    /\ kept = <<>>
    /\ dstep = "input"

\* kept = de_duplicate_headers_footers(lines)
Dedup ==
    /\ UNCHANGED notDedup
    /\ dstep = "input"
    /\ kept' = de_duplicate_headers_footers(lines)
    /\ dstep' = "deduped"
    /\ UNCHANGED lines

(***************************************************************************)
(* extract.py: readers and the extraction entry point                      *)
(***************************************************************************)
\* What a file holds: the format its bytes really are, its pages (PDF) or
\* paragraphs (DOCX), and its tables as rows of cell texts (DOCX).
PdfFile(pages) == [kind |-> "pdf", units |-> pages, tables |-> <<>>]
DocxFile(paragraphs, tables) == [kind |-> "docx", units |-> paragraphs, tables |-> tables]
OtherFile == [kind |-> "other", units |-> <<>>, tables |-> <<>>]

\* sep.join(parts)
RECURSIVE join_with(_, _)
join_with(parts, sep) ==
    IF parts = <<>> THEN <<>>
    ELSE IF Len(parts) = 1 THEN Head(parts)
    ELSE Head(parts) \o sep \o join_with(Tail(parts), sep)

RECURSIVE concat(_)
concat(seqs) == IF seqs = <<>> THEN <<>> ELSE Head(seqs) \o concat(Tail(seqs))

\* The rows of every table, in order, each as "  ".join(cell texts); blank
\* rows are skipped.
table_rows(tables) ==
    SelectSeq([i \in 1..Len(concat(tables)) |-> join_with(concat(tables)[i], <<" ", " ">>)],
              LAMBDA row_text : strip(row_text) # <<>>)

extract_text_from_docx(file) == join(file.units \o table_rows(file.tables))

\* os.path.splitext(p)[1]: from the last dot of the last path component,
\* unless that component has nothing but dots before it.
LastIndexOf(p, c) ==
    LET S == {i \in 1..Len(p) : p[i] = c} IN IF S = {} THEN 0 ELSE MaxOf(S)

splitext_ext(p) ==
    LET sepIndex == LastIndexOf(p, "/")
        dotIndex == LastIndexOf(p, ".")
    IN  IF dotIndex > sepIndex /\ \E i \in (sepIndex + 1)..(dotIndex - 1) : p[i] # "."
        THEN SubSeq(p, dotIndex, Len(p))
        ELSE <<>>

EXT_PDF == <<".", "p", "d", "f">>
EXT_DOCX == <<".", "d", "o", "c", "x">>
MSG_NOT_FOUND == <<"F", "i", "l", "e", " ", "n", "o", "t", " ", "f", "o", "u", "n", "d",
        ":", " ">>
MSG_UNSUPPORTED ==
    <<"U", "n", "s", "u", "p", "p", "o", "r", "t", "e", "d", " ", "f", "o",
    "r", "m", "a", "t", ".", " ", "U", "s", "e", " ", "P", "D", "F", " ", "o",
    "r", " ", "D", "O", "C", "X", ".">>

NoText == <<>>

\* A faulty dispatch: every extension other than .pdf goes to the DOCX reader.
extract_resume_text_docx_fallback(path, fsys, do_clean) ==
    IF path \notin DOMAIN fsys
    THEN [outcome |-> "FileNotFoundError", message |-> MSG_NOT_FOUND \o path,
          ops |-> <<"isfile">>, raw |-> NoText, cleaned |-> NoText]
    ELSE LET ext == lower(splitext_ext(path))
             file == fsys[path]
             reader == IF ext = EXT_PDF THEN "pdf" ELSE "docx"
             opened == IF ext = EXT_PDF THEN "pdfplumber.open" ELSE "Document"
         IN  IF file.kind # reader
             THEN [outcome |-> "ReaderError", message |-> NoText,
                   ops |-> <<"isfile", opened>>, raw |-> NoText, cleaned |-> NoText]
             ELSE LET raw == IF ext = EXT_PDF THEN extract_text_from_pdf(file.units)
                                              ELSE extract_text_from_docx(file)
                  IN  [outcome |-> "returned", message |-> NoText,
                       ops |-> <<"isfile", opened>>, raw |-> raw,
                       cleaned |-> IF do_clean THEN clean_text(raw) ELSE raw]

\* extract_resume_text(file_path, clean) on a filesystem fsys (existing path ->
\* file): how the call ends, what it returns or the message it raises with, and
\* the filesystem operations it performed.  A reader handed bytes of another
\* format raises its own error, which the function does not catch.
extract_resume_text(path, fsys, do_clean) ==
    IF path \notin DOMAIN fsys
    THEN [outcome |-> "FileNotFoundError", message |-> MSG_NOT_FOUND \o path,
          ops |-> <<"isfile">>, raw |-> NoText, cleaned |-> NoText]
    ELSE LET ext == lower(splitext_ext(path))
             file == fsys[path]
             reader == IF ext = EXT_PDF THEN "pdf" ELSE "docx"
             opened == IF ext = EXT_PDF THEN "pdfplumber.open" ELSE "Document"
         IN  IF ext # EXT_PDF /\ ext # EXT_DOCX
             THEN [outcome |-> "ValueError", message |-> MSG_UNSUPPORTED,
                   ops |-> <<"isfile">>, raw |-> NoText, cleaned |-> NoText]
             ELSE IF file.kind # reader
             THEN [outcome |-> "ReaderError", message |-> NoText,
                   ops |-> <<"isfile", opened>>, raw |-> NoText, cleaned |-> NoText]
             ELSE LET raw == IF ext = EXT_PDF THEN extract_text_from_pdf(file.units)
                                              ELSE extract_text_from_docx(file)
                  IN  [outcome |-> "returned", message |-> NoText,
                       ops |-> <<"isfile", opened>>, raw |-> raw,
                       cleaned |-> IF do_clean THEN clean_text(raw) ELSE raw]

NotCalled == [outcome |-> "none", message |-> NoText, ops |-> <<>>,
              raw |-> NoText, cleaned |-> NoText]

\* Files and paths the entry point is tried on.
HEADER == <<"J", " ", "D", "o", "e", "\n">>
PdfA == PdfFile(<<HEADER \o <<"C", "+", "+">>, HEADER \o <<"S", "Q", "L">>>>)
PdfB == PdfFile(<<<<"G", "o">>, <<>>, <<"A", "W", "S">>>>)
DocxA == DocxFile(<<<<"C", "#">>, <<"R", "&", "D">>>>, << << <<<<"j", "s">>, <<"t", "s">>>>, <<<<" ">>, <<>>>> >> >>)
Files == {PdfA, PdfB, DocxA, OtherFile}

Paths == {
    <<"c", "v", ".", "p", "d", "f">>,
    <<"c", "v", ".", "P", "D", "F">>,
    <<"c", "v", ".", "d", "o", "c", "x">>,
    <<"c", "v", ".", "D", "o", "c", "x">>,
    <<"c", "v", ".", "p", "a", "g", "e", "s">>,
    <<"c", "v", ".", "t", "x", "t">>,
    <<"c", "v">>,
    <<".", "p", "d", "f">>,
    <<"v", "1", ".", "2", "/", "c", "v">>,
    <<"c", "v", ".">>
}

ExtractIdle == file_path = <<>> /\ disk = <<>> /\ clean = TRUE /\ returned = NotCalled
                   /\ estep = "idle"

ExtractInit ==
    /\ file_path \in Paths
    /\ disk \in {<<>>} \cup {[q \in {file_path} |-> f] : f \in Files}
    /\ clean \in BOOLEAN
    /\ returned = NotCalled
    /\ estep = "input"

\* returned = extract_resume_text(file_path, clean)
CallExtract ==
    /\ UNCHANGED notExtract
    /\ estep = "input"
    /\ returned' = extract_resume_text(file_path, disk, clean)
    /\ estep' = "called"
    /\ UNCHANGED <<file_path, disk, clean>>

(***************************************************************************)
(* extract.py: scanned-PDF heuristic                                       *)
(***************************************************************************)
\* page.extract_text() gives None or a string: <<>> is None, <<t>> the string t.
None == <<>>
Some(t) == <<t>>

\* txt or ""
_page_text_safe(page) == IF page = None THEN <<>> ELSE page[1]

\* pdf.pages[:sample_pages] if len(pdf.pages) > sample_pages else pdf.pages
sampled(pages, n) == IF Len(pages) > n THEN SubSeq(pages, 1, n) ELSE pages

empty_count(pages) ==
    Cardinality({i \in 1..Len(pages) : strip(_page_text_safe(pages[i])) = <<>>})

\* A faulty comparison: empty_count >= len(pages) - 1 without the floor of 1.
is_scanned_pdf_no_max(pages, n, opens) ==
    IF ~opens THEN FALSE
    ELSE empty_count(sampled(pages, n)) >= Len(sampled(pages, n)) - 1

\* is_scanned_pdf(pdf_path, sample_pages): opens is whether pdfplumber reads
\* the file; any exception gives False.
is_scanned_pdf(pages, n, opens) ==
    IF ~opens THEN FALSE
    ELSE empty_count(sampled(pages, n)) >= Max(1, Len(sampled(pages, n)) - 1)

\* Most pages of a PDF, and the largest sample size tried (the default is 3).
MaxPdfPages == 4
MaxSample == 4
PageTexts == {None, Some(<<>>), Some(<<" ", "\n">>), Some(<<"a">>)}
Pdfs == UNION {[1..n -> PageTexts] : n \in 0..MaxPdfPages}

ScannedIdle == pdf_pages = <<>> /\ sample_pages = 3 /\ readable = TRUE
                   /\ scanned = FALSE /\ sstep = "idle"

ScannedInit ==
    /\ pdf_pages \in Pdfs
    /\ sample_pages \in 0..MaxSample
    /\ readable \in BOOLEAN
    /\ scanned = FALSE
    /\ sstep = "input"

\* scanned = is_scanned_pdf(pdf_path, sample_pages)
CheckScanned ==
    /\ UNCHANGED notScanned
    /\ sstep = "input"
    /\ scanned' = is_scanned_pdf(pdf_pages, sample_pages, readable)
    /\ sstep' = "checked"
    /\ UNCHANGED <<pdf_pages, sample_pages, readable>>

(***************************************************************************)
(* app.py: the "Calculate Match" handler                                   *)
(***************************************************************************)
\* An uploaded text file: its bytes, an ASCII character each or the byte 0xE9.
TextFile(bytes) == [kind |-> "text", units |-> <<bytes>>, tables |-> <<>>]

\* bytes_data.decode(enc) for utf-8, then latin-1: a lone 0xE9 is no UTF-8,
\* and latin-1 reads it as U+00E9.
_read_text_file(uploaded) ==
    LET bytes_data == uploaded.bytes.units[1]
    IN  IF \A i \in 1..Len(bytes_data) : bytes_data[i] # "0xE9" THEN bytes_data
        ELSE replace(bytes_data, "0xE9", <<"U+00E9">>)

\* Names tempfile has to choose from.
MaxTmpNames == 2
TmpNameList == << <<"t", "1">>, <<"t", "2">>, <<"t", "3">> >>
TmpNames == {TmpNameList[i] : i \in 1..MaxTmpNames}

EmptyFile == [kind |-> "other", units |-> <<>>, tables |-> <<>>]

Uploads == {
    [name |-> <<"a", ".", "p", "d", "f">>, bytes |-> PdfA],
    [name |-> <<"b", ".", "p", "d", "f">>, bytes |-> PdfB],
    [name |-> <<"b", ".", "p", "d", "f">>, bytes |-> OtherFile],
    [name |-> <<"c", ".", "D", "O", "C", "X">>, bytes |-> DocxA],
    [name |-> <<"d", ".", "t", "x", "t">>, bytes |-> TextFile(<<"G", "o", "0xE9">>)]
}
PastedResumes == {<<" ">>, <<"S", "Q", "L">>}
PastedJds == {<<>>, <<"s", "q", "l">>}
Requests == [resume_file : {None} \cup {Some(u) : u \in Uploads},
             resume_text : PastedResumes, jd_text : PastedJds]

NoRequest == [resume_file |-> None, resume_text |-> <<>>, jd_text |-> <<>>]
NoExtract == [raw |-> NoText, cleaned |-> NoText]
EmptyMap == [x \in {} |-> NoExtract]

\* f with key k set to v, and f without key k.
Put(f, k, v) == [x \in DOMAIN f \cup {k} |-> IF x = k THEN v ELSE f[x]]
Drop(f, k) == [x \in DOMAIN f \ {k} |-> f[x]]

AppIdle ==
    /\ pc = "idle" /\ fs = EmptyMap /\ cache = EmptyMap /\ request = NoRequest
    /\ tmp = None /\ tmp_path = None /\ extracted = NoExtract
    /\ pending = "none" /\ failure = "none"

AppInit == AppIdle

\* The button is pressed: the two input checks, then the branch on the upload.
ClickRun ==
    /\ UNCHANGED notApp
    /\ pc \in {"idle", "ended"}
    /\ \E req \in Requests :
        /\ request' = req
        /\ tmp' = None /\ tmp_path' = None /\ pending' = "none"
        /\ IF req.resume_file = None /\ strip(req.resume_text) = <<>>
           THEN pc' = "ended" /\ failure' = "warning" /\ extracted' = NoExtract
           ELSE IF strip(req.jd_text) = <<>>
           THEN pc' = "ended" /\ failure' = "warning" /\ extracted' = NoExtract
           ELSE IF req.resume_file = None
           THEN /\ pc' = "matching" /\ failure' = "none"
                /\ extracted' = [raw |-> req.resume_text,
                                 cleaned |-> clean_text(req.resume_text)]
           ELSE IF lower(splitext_ext(req.resume_file[1].name)) = <<".", "t", "x", "t">>
           THEN /\ pc' = "matching" /\ failure' = "none"
                /\ extracted' = [raw |-> _read_text_file(req.resume_file[1]),
                                 cleaned |-> clean_text(_read_text_file(req.resume_file[1]))]
           ELSE pc' = "tempfile" /\ failure' = "none" /\ extracted' = NoExtract
    /\ UNCHANGED <<fs, cache>>

\* tempfile.NamedTemporaryFile(delete=False, suffix=ext): a file under a name
\* not in use, which stays when the file object is closed.
CreateTemp ==
    /\ UNCHANGED notApp
    /\ pc = "tempfile"
    /\ LET ext == lower(splitext_ext(request.resume_file[1].name))
           free == {n \in TmpNames : (n \o ext) \notin DOMAIN fs}
       IN  IF free = {}
           THEN /\ pc' = "ended" /\ failure' = "FileExistsError"
                /\ UNCHANGED <<fs, tmp>>
           ELSE \E n \in free :
                /\ fs' = Put(fs, n \o ext, EmptyFile)
                /\ tmp' = Some(n \o ext)
                /\ pc' = "write"
                /\ UNCHANGED failure
    /\ UNCHANGED <<cache, request, tmp_path, extracted, pending>>

\* tmp.write(resume_file.read()); tmp_path = tmp.name
WriteUpload ==
    /\ UNCHANGED notApp
    /\ pc = "write"
    /\ fs' = Put(fs, tmp[1], request.resume_file[1].bytes)
    /\ tmp_path' = tmp
    /\ pc' = "extract"
    /\ UNCHANGED <<cache, request, tmp, extracted, pending, failure>>

\* The read or the write raises (a full disk): the with block closes the file
\* and the exception leaves the handler before the try statement.
WriteFails ==
    /\ UNCHANGED notApp
    /\ pc = "write"
    /\ pc' = "ended"
    /\ failure' = "OSError"
    /\ UNCHANGED <<fs, cache, request, tmp, tmp_path, extracted, pending>>

\* _extract_from_path(tmp_path) under st.cache_data: the stored value for this
\* argument if there is one; otherwise extract_resume_text runs, and its
\* value is stored unless it raises.
ExtractFromPath ==
    /\ UNCHANGED notApp
    /\ pc = "extract"
    /\ IF tmp_path[1] \in DOMAIN cache
       THEN /\ extracted' = cache[tmp_path[1]]
            /\ UNCHANGED <<cache, pending>>
       ELSE LET r == extract_resume_text(tmp_path[1], fs, TRUE)
            IN  IF r.outcome = "returned"
                THEN /\ extracted' = [raw |-> r.raw, cleaned |-> r.cleaned]
                     /\ cache' = Put(cache, tmp_path[1], [raw |-> r.raw, cleaned |-> r.cleaned])
                     /\ UNCHANGED pending
                ELSE /\ pending' = r.outcome
                     /\ UNCHANGED <<cache, extracted>>
    /\ pc' = "remove"
    /\ UNCHANGED <<fs, request, tmp, tmp_path, failure>>

\* finally: os.remove(tmp_path); an exception of the extraction goes on up.
RemoveTemp ==
    /\ UNCHANGED notApp
    /\ pc = "remove"
    /\ fs' = Drop(fs, tmp_path[1])
    /\ IF pending = "none" THEN pc' = "matching" /\ UNCHANGED failure
                           ELSE pc' = "ended" /\ failure' = pending
    /\ UNCHANGED <<cache, request, tmp, tmp_path, extracted, pending>>

\* Keywords, match and rendering: they read extracted and touch neither the
\* temporary file nor the extraction cache.
MatchAndRender ==
    /\ UNCHANGED notApp
    /\ pc = "matching"
    /\ pc' = "ended"
    /\ UNCHANGED <<fs, cache, request, tmp, tmp_path, extracted, pending, failure>>

(***************************************************************************)
(* jobmatcher.py                                                           *)
(***************************************************************************)
\* Size of the keyword universe the two sets are drawn from.
MaxTerms == 3
Vocabulary == <<"python", "sql", "machine learning", "aws", "docker">>
Terms == {Vocabulary[i] : i \in 1..MaxTerms}

\* _fuzzy_matched's default cutoff.
cutoff == 88
\* What fuzz.token_set_ratio may answer for a pair: just below and at the cutoff.
Scores == {cutoff - 1, cutoff}

\* process.extractOne(t, res_list, scorer=fuzz.token_set_ratio)[1]: the best
\* score of t against the resume terms.
RECURSIVE BestScore(_, _)
BestScore(t, res) ==
    IF res = {} THEN 0
    ELSE LET r == CHOOSE x \in res : TRUE
         IN  Max(ratio[<<t, r>>], BestScore(t, res \ {r}))

extractOne(t, res_list) == BestScore(t, res_list)

\* A faulty comparison: a term counts as matched when its best score is below
\* the cutoff.
_fuzzy_matched_inverted(jd_terms, resume_terms) ==
    IF ~HAVE_FUZZ \/ jd_terms = {} \/ resume_terms = {} THEN {}
    ELSE {t \in jd_terms : extractOne(t, resume_terms) < cutoff}

\* The JD terms whose best score against the resume terms reaches the cutoff;
\* none without rapidfuzz or with an empty set.
_fuzzy_matched(jd_terms, resume_terms) ==
    IF ~HAVE_FUZZ \/ jd_terms = {} \/ resume_terms = {} THEN {}
    ELSE {t \in jd_terms : extractOne(t, resume_terms) >= cutoff}

\* Faulty weights: 0.3 for the exact part and 0.7 for the fuzzy part.
score_swapped(n_exact, n_fuzzy, n_jd) ==
    LET fuzzy_denom == Max(1, n_jd)
        num == 3000 * n_exact * fuzzy_denom + 7000 * Min(fuzzy_denom, n_fuzzy) * n_jd
        den == n_jd * fuzzy_denom
    IN  (2 * num + den) \div (2 * den)

\* round(100.0 * (0.7 * jaccard + 0.3 * min(1.0, fuzzy_frac)), 2) in hundredths,
\* with jaccard = n_exact / n_jd and fuzzy_frac = n_fuzzy / max(1, n_jd).  The
\* exact value (7000 * n_exact + 3000 * min(n_jd, n_fuzzy)) / n_jd is a tie
\* between two hundredths only when 16 divides n_jd, so below that size
\* rounding to nearest is what round() gives.
score(n_exact, n_fuzzy, n_jd) ==
    LET fuzzy_denom == Max(1, n_jd)
        num == 7000 * n_exact * fuzzy_denom + 3000 * Min(fuzzy_denom, n_fuzzy) * n_jd
        den == n_jd * fuzzy_denom
    IN  (2 * num + den) \div (2 * den)

EmptyResult == [common |-> {}, fuzzy_common |-> {}, missing |-> {}, score |-> 0]

\* A faulty fuzzy_common: the exact matches are not taken out of it.
calculate_match_overlap(resume, jd) ==
    IF jd = {} THEN EmptyResult
    ELSE LET exact_common == resume \cap jd
             fuzzy_common == _fuzzy_matched(jd, resume)
         IN  [common |-> exact_common,
              fuzzy_common |-> fuzzy_common,
              missing |-> jd \ (resume \cup fuzzy_common),
              score |-> score(Cardinality(exact_common), Cardinality(fuzzy_common),
                              Cardinality(jd))]

\* calculate_match(resume_keywords, jd_keywords)
calculate_match(resume, jd) ==
    IF jd = {} THEN EmptyResult
    ELSE LET exact_common == resume \cap jd
             fuzzy_common == _fuzzy_matched(jd, resume) \ exact_common
         IN  [common |-> exact_common,
              fuzzy_common |-> fuzzy_common,
              missing |-> jd \ (resume \cup fuzzy_common),
              score |-> score(Cardinality(exact_common), Cardinality(fuzzy_common),
                              Cardinality(jd))]

\* The scorer is a function of the two strings.  It is consulted only for a
\* job-description term against a resume term (and the resume only ever gains
\* job-description terms), so the other pairs are left at 0; with rapidfuzz
\* missing it is never consulted.
NoScorer == [p \in Terms \X Terms |-> 0]
Scorers(resume, jd) ==
    LET consulted == jd \X (resume \cup jd)
    IN  {[p \in Terms \X Terms |-> IF p \in consulted THEN g[p] ELSE 0] :
            g \in [consulted -> Scores]}

MatchIdle ==
    /\ resume_keywords = {} /\ jd_keywords = {} /\ HAVE_FUZZ = FALSE /\ ratio = NoScorer
    /\ result = EmptyResult /\ before = EmptyResult /\ added = {} /\ mstep = "idle"

MatchInit ==
    /\ resume_keywords \in SUBSET Terms
    /\ jd_keywords \in SUBSET Terms
    /\ HAVE_FUZZ \in BOOLEAN
    /\ IF HAVE_FUZZ THEN ratio \in Scorers(resume_keywords, jd_keywords)
                 ELSE ratio = NoScorer
    /\ result = EmptyResult
    /\ before = EmptyResult
    /\ added = {}
    /\ mstep = "input"

\* result = calculate_match(resume_keywords, jd_keywords)
Calculate ==
    /\ UNCHANGED notMatch
    /\ mstep = "input"
    /\ result' = calculate_match(resume_keywords, jd_keywords)
    /\ mstep' = "matched"
    /\ UNCHANGED <<resume_keywords, jd_keywords, HAVE_FUZZ, ratio, before, added>>

\* The resume gains a term reported missing and the match is calculated again.
AddMissingTerm ==
    /\ UNCHANGED notMatch
    /\ mstep = "matched"
    /\ \E t \in result.missing :
        /\ resume_keywords' = resume_keywords \cup {t}
        /\ added' = {t}
        /\ before' = result
        /\ result' = calculate_match(resume_keywords \cup {t}, jd_keywords)
    /\ mstep' = "rematched"
    /\ UNCHANGED <<jd_keywords, HAVE_FUZZ, ratio>>

(***************************************************************************)
(* Specifications: the request handler, and one per function taken alone   *)
(***************************************************************************)
Init ==
    /\ AppInit
    /\ MatchIdle /\ DedupIdle /\ CleanIdle /\ ExtractIdle /\ ScannedIdle

Next ==
    \/ ClickRun
    \/ CreateTemp
    \/ WriteUpload
    \/ WriteFails
    \/ ExtractFromPath
    \/ RemoveTemp
    \/ MatchAndRender

Spec == Init /\ [][Next]_vars

InitMatch ==
    /\ MatchInit
    /\ DedupIdle /\ CleanIdle /\ ExtractIdle /\ ScannedIdle /\ AppIdle

NextMatch == Calculate \/ AddMissingTerm

SpecMatch == InitMatch /\ [][NextMatch]_vars

InitClean ==
    /\ CleanInit
    /\ MatchIdle /\ DedupIdle /\ ExtractIdle /\ ScannedIdle /\ AppIdle

NextClean == Clean \/ CleanAgain

SpecClean == InitClean /\ [][NextClean]_vars

InitDedup ==
    /\ DedupInit
    /\ MatchIdle /\ CleanIdle /\ ExtractIdle /\ ScannedIdle /\ AppIdle

NextDedup == Dedup

SpecDedup == InitDedup /\ [][NextDedup]_vars

InitExtract ==
    /\ ExtractInit
    /\ MatchIdle /\ DedupIdle /\ CleanIdle /\ ScannedIdle /\ AppIdle

NextExtract == CallExtract

SpecExtract == InitExtract /\ [][NextExtract]_vars

InitScanned ==
    /\ ScannedInit
    /\ MatchIdle /\ DedupIdle /\ CleanIdle /\ ExtractIdle /\ AppIdle

NextScanned == CheckScanned

SpecScanned == InitScanned /\ [][NextScanned]_vars

(***************************************************************************)
(* Properties of calculate_match                                           *)
(***************************************************************************)
Matched == mstep \in {"matched", "rematched"}

SameSets == mstep = "matched" /\ resume_keywords = jd_keywords /\ jd_keywords # {}

\* C2 as stated: a resume set equal to a non-empty job-description set gives
\* common = J, missing = {} and a score of 100.00.
C2_Original ==
    SameSets =>
        /\ result.common = jd_keywords
        /\ result.missing = {}
        /\ result.score = 10000

\* C2 as the code has it: a resume set equal to a non-empty job-description set
\* gives common = J, missing = {}, no fuzzy credit and a score of 70.00, with
\* or without the fuzzy matcher.
C2_SameSetsScore70 ==
    SameSets =>
        /\ result.common = jd_keywords
        /\ result.missing = {}
        /\ result.fuzzy_common = {}
        /\ result.score = 7000

\* Equal non-empty sets matched with the fuzzy matcher present.
C2_Witness == SameSets /\ HAVE_FUZZ /\ Cardinality(jd_keywords) >= 2

\* The other missing terms the fuzzy matcher near-matches to the added term.
NewlyNear == {u \in before.missing \ added : \E t \in added : ratio[<<u, t>>] >= cutoff}

Occurrences(k) == Cardinality({i \in 1..Len(lines) : strip(lines[i]) = k})

NonBlank == {strip(lines[i]) : i \in 1..Len(lines)} \ {<<>>}

\* The highest occurrence count of a non-blank trimmed line, 0 without one.
HighestCount == IF NonBlank = {} THEN 0 ELSE MaxOf({Occurrences(k) : k \in NonBlank})

RemovalThreshold == Max(2, (2 * HighestCount) \div 5)

Blank(ln) == strip(ln) = <<>>

\* The input without the lines, blank ones too if with_blank, whose trimmed
\* content occurs at least RemovalThreshold times.
WithoutFrequent(with_blank) ==
    LET t == RemovalThreshold
        count == [k \in NonBlank \cup {<<>>} |-> Occurrences(k)]
    IN  SelectSeq(lines, LAMBDA ln : (~with_blank /\ Blank(ln)) \/ count[strip(ln)] < t)

Called == estep = "called"
Supported == {EXT_PDF, EXT_DOCX}

\* C5 as stated: any extension outside {.pdf, .docx} raises the unsupported
\* format error, with no filesystem operation but the existence check.
C5_Original ==
    (Called /\ splitext_ext(file_path) \notin Supported) =>
        /\ returned.outcome = "ValueError"
        /\ returned.ops = <<"isfile">>

\* C5 as the code has it: for an existing file whose extension, lower-cased,
\* is outside {.pdf, .docx}, the call raises the unsupported format error with
\* no filesystem operation but the existence check.
C5_UnsupportedExisting ==
    (Called /\ file_path \in DOMAIN disk
            /\ lower(splitext_ext(file_path)) \notin Supported) =>
        /\ returned.outcome = "ValueError"
        /\ returned.ops = <<"isfile">>

\* An existing .pages file was refused.
C5_Witness ==
    /\ Called
    /\ file_path = <<"c", "v", ".", "p", "a", "g", "e", "s">>
    /\ file_path \in DOMAIN disk
    /\ returned.outcome = "ValueError"

\* s holds t as a run of consecutive characters.
Contains(s, t) == \E i \in 0..(Len(s) - Len(t)) : SubSeq(s, i + 1, i + Len(t)) = t

\* C9: the message of the unsupported format error names the extension of the
\* path that was passed in.
C9_MessageNamesExtension ==
    (Called /\ returned.outcome = "ValueError") =>
        Contains(returned.message, splitext_ext(file_path))

(***************************************************************************)
(* Properties of is_scanned_pdf                                            *)
(***************************************************************************)
NumSampled == Min(sample_pages, Len(pdf_pages))

\* A page with no text or only whitespace.
EmptyPage(page) == page = None \/ \A j \in 1..Len(page[1]) : page[1][j] \in Whitespace

EmptySampled == Cardinality({i \in 1..NumSampled : EmptyPage(pdf_pages[i])})
NonEmptySampled == Cardinality({i \in 1..NumSampled : ~EmptyPage(pdf_pages[i])})

\* C7 as stated: a readable PDF is flagged exactly when at most one of the
\* first min(N, page count) pages has text, also with one page or none.
C7_Original ==
    (sstep = "checked" /\ readable) => (scanned <=> NonEmptySampled <= 1)

\* C7 as the code has it: a PDF is flagged exactly when it can be read, at
\* least one of the first min(N, page count) pages is empty, and at most one of
\* them has text; a PDF with no page, or with one page that has text, is not.
C7_FlaggedWhenMostlyEmpty ==
    sstep = "checked" =>
        (scanned <=> (readable /\ EmptySampled >= 1 /\ NonEmptySampled <= 1))

\* Four pages sampled by three: two empty and one with text among the sampled,
\* text on the page left out, and the PDF is flagged.
C7_Witness ==
    /\ sstep = "checked"
    /\ readable
    /\ Len(pdf_pages) = 4
    /\ sample_pages = 3
    /\ NonEmptySampled = 1
    /\ ~EmptyPage(pdf_pages[4])
    /\ scanned

(***************************************************************************)
(* Properties of clean_text                                                *)
(***************************************************************************)
\* C8: cleaning a cleaned text changes nothing.
C8_Idempotent == cstep = "recleaned" => recleaned = cleaned

\* A text with a bullet and an upper-case letter was cleaned twice.
C8_Witness ==
    /\ cstep = "recleaned"
    /\ \E i \in 1..Len(text) : text[i] = "U+2022"
    /\ \E i \in 1..Len(text) : text[i] = "A"
    /\ Len(cleaned) >= 3
    /\ cleaned # text

(***************************************************************************)
(* Properties of the request handler                                       *)
(***************************************************************************)
\* C6: when a request that created a temporary file ends, by whatever path,
\* that file no longer exists.
C6_TempFileGone ==
    (pc = "ended" /\ tmp # None) => tmp[1] \notin DOMAIN fs

\* What extract_resume_text gives for the request's own upload at tmp_path.
OwnExtraction ==
    LET r == extract_resume_text(tmp_path[1],
                 Put(EmptyMap, tmp_path[1], request.resume_file[1].bytes), TRUE)
    IN  [raw |-> r.raw, cleaned |-> r.cleaned]

\* C10: the text a request goes on to match is the extraction of its own
\* upload, never a value memoized for an earlier upload.
C10_OwnUploadExtracted ==
    (pc = "matching" /\ tmp_path # None) => extracted = OwnExtraction

=============================================================================
